---- MODULE Spec2Model ----
(***************************************************************************)
(* A model of the fsm package of nickwells/fsm.mod: the transition graph   *)
(* (StateTrans), the runtime engine (FSM) and the hook contract            *)
(* (Underlying).                                                           *)
(*                                                                         *)
(* A *state is modelled by its name: the graph owns one state object per   *)
(* name and never deletes one, so a name identifies the object.  The map   *)
(* nextState (name -> *state) always maps a key k to the graph's state     *)
(* named k (stateTran.go:88), so it is modelled by its set of keys.        *)
(*                                                                         *)
(* The package is single-threaded: one call is in progress at a time.  A   *)
(* ChangeState call on an FSM with an Underlying is split at the two hook  *)
(* calls, so that what a hook can observe of the FSM is a state of the     *)
(* model.  The hooks are those of the repository's tests: they record      *)
(* that they were called and answer, they do not call back into the FSM.   *)
(***************************************************************************)
EXTENDS Integers, Sequences, FiniteSets, TLC

\* ------------------------------------------------------------------ bounds
MaxPairs == 3
MaxDescs == 2

\* ------------------------------------------------------- program constants
InitState == "init"
InitDesc == "the initial state"

\* ------------------------------------------------------------ input values
StateNames == {InitState, "A", "B"}
ArgNames == StateNames \cup {"nonesuch"}
GraphNames == {"testFSM", "lifecycle"}
Descs == {"", "first"}
FSMs == {"f1", "f2"}
OneFSM == {"f1"}
UndErrors == {[kind |-> "errorString", msg |-> "the underlying forbids the change"],
              [kind |-> "errorString", msg |-> "missing test evidence"]}

Verbs == {"v", "s", "d"}

STPair == [From : StateNames, To : StateNames]
DescNames == {InitState, "A"}
StateDesc == [Name : DescNames, Desc : Descs]

SeqsUpTo(S, n) == UNION {[1..k -> S] : k \in 0..n}

\* ------------------------------------------------------------- nil values
NoErr == [kind |-> "nil"]
NilST == [nil |-> TRUE]
NilFSM == [nil |-> TRUE]

VARIABLES
    st,     \* the caller's *StateTrans: NilST or [name, states]
    err,    \* the error returned with st by NewStateTrans
    fsms,   \* FSM id -> NilFSM or [prior, current, und]
    und,    \* FSM id -> what the FSM's Underlying has recorded
    pc,     \* "idle", or the hook the call in progress is inside
    call    \* the call in progress or, when idle, the last call and its result

vars == <<st, err, fsms, und, pc, call>>

\* ------------------------------------------------------------------ state
newState(name) == [name |-> name, desc |-> "", nextState |-> {}]

isTerminal(s) == Cardinality(s.nextState) = 0

\* ------------------------------------------------------------- StateTrans
HasState(g, name) == name \in DOMAIN g.states

StateCount(g) == Cardinality(DOMAIN g.states)

\* the StateTrans that NewStateTrans makes before it sets the transitions
emptyStateTrans(name) ==
    LET is == [newState(InitState) EXCEPT !.desc = InitDesc]
    IN [name |-> name, states |-> (InitState :> is)]

\* add, were it not to create a missing 'to' state
add_noNewTo(g, from, to) ==
    IF from \notin DOMAIN g.states
    THEN [st |-> g,
          err |-> [kind |-> "errorString", name |-> g.name,
                   from |-> from, to |-> to]]
    ELSE [st |-> [g EXCEPT !.states[from].nextState = @ \cup {to}],
          err |-> NoErr]

\* add, were it to make a new 'to' state also when there is one already
add_renewsTo(g, from, to) ==
    IF from \notin DOMAIN g.states
    THEN [st |-> g,
          err |-> [kind |-> "errorString", name |-> g.name,
                   from |-> from, to |-> to]]
    ELSE LET withTo == IF to \in DOMAIN g.states
                       THEN [g.states EXCEPT ![to] = newState(to)]
                       ELSE g.states @@ (to :> newState(to))
         IN [st |-> [g EXCEPT !.states =
                        IF from = to
                        THEN withTo
                        ELSE [withTo EXCEPT ![from].nextState = @ \cup {to}]],
             err |-> NoErr]

\* add, were it to create a missing 'from' state as it creates a missing 'to'
add_createsFrom(g, from, to) ==
    LET withFrom == IF from \in DOMAIN g.states
                    THEN g.states
                    ELSE g.states @@ (from :> newState(from))
        withTo == IF to \in DOMAIN withFrom
                  THEN withFrom
                  ELSE withFrom @@ (to :> newState(to))
    IN [st |-> [g EXCEPT !.states =
                   [withTo EXCEPT ![from].nextState = @ \cup {to}]],
        err |-> NoErr]

\* add, were it to make the 'to' state and leave out the edge to it
add_noEdge(g, from, to) ==
    IF from \notin DOMAIN g.states
    THEN [st |-> g,
          err |-> [kind |-> "errorString", name |-> g.name,
                   from |-> from, to |-> to]]
    ELSE [st |-> [g EXCEPT !.states =
                     IF to \in DOMAIN g.states
                     THEN g.states
                     ELSE g.states @@ (to :> newState(to))],
          err |-> NoErr]

add(g, from, to) ==
    IF from \notin DOMAIN g.states
    THEN [st |-> g,
          err |-> [kind |-> "errorString", name |-> g.name,
                   from |-> from, to |-> to]]
    ELSE LET withTo == IF to \in DOMAIN g.states
                       THEN g.states
                       ELSE g.states @@ (to :> newState(to))
         IN [st |-> [g EXCEPT !.states =
                        [withTo EXCEPT ![from].nextState = @ \cup {to}]],
             err |-> NoErr]

RECURSIVE set(_, _)
set(g, transitions) ==
    IF transitions = <<>>
    THEN [st |-> g, err |-> NoErr]
    ELSE LET r == add(g, Head(transitions).From, Head(transitions).To)
         IN IF r.err # NoErr
            THEN r
            ELSE set(r.st, Tail(transitions))

\* SetStateDesc, were it to make the state that is missing
setStateDesc_createsState(g, name, desc) ==
    LET states == IF name \in DOMAIN g.states
                  THEN g.states
                  ELSE g.states @@ (name :> newState(name))
    IN [st |-> [g EXCEPT !.states = [states EXCEPT ![name].desc = desc]],
        err |-> IF name \in DOMAIN g.states
                THEN NoErr
                ELSE [kind |-> "errorString", name |-> g.name,
                      state |-> name]]

setStateDesc(g, name, desc) ==
    IF name \notin DOMAIN g.states
    THEN [st |-> g,
          err |-> [kind |-> "errorString", name |-> g.name, state |-> name]]
    ELSE [st |-> [g EXCEPT !.states[name].desc = desc], err |-> NoErr]

\* SetDescriptions, were it to go on after an entry has failed
RECURSIVE setDescriptions_skipsFailed(_, _)
setDescriptions_skipsFailed(g, descriptions) ==
    IF descriptions = <<>>
    THEN [st |-> g, err |-> NoErr]
    ELSE LET r == setStateDesc(g, Head(descriptions).Name,
                               Head(descriptions).Desc)
             rest == setDescriptions_skipsFailed(r.st, Tail(descriptions))
         IN [st |-> rest.st,
             err |-> IF r.err # NoErr THEN r.err ELSE rest.err]

RECURSIVE setDescriptions(_, _)
setDescriptions(g, descriptions) ==
    IF descriptions = <<>>
    THEN [st |-> g, err |-> NoErr]
    ELSE LET r == setStateDesc(g, Head(descriptions).Name,
                               Head(descriptions).Desc)
         IN IF r.err # NoErr
            THEN r
            ELSE setDescriptions(r.st, Tail(descriptions))

\* -------------------------------------------------------------------- FSM
Name(F) == st.name

CurrentState(F) == st.states[F.current].name

PriorState(F) == st.states[F.prior].name

IsInTerminalState(F) == isTerminal(st.states[F.current])

IsInInitialState(F) == st.states[F.current].name = InitState

\* what a caller or a hook holding the FSM reads from it
Observe(F) == [prior |-> PriorState(F), current |-> CurrentState(F)]

mkErrUnknownState(F, s) ==
    [kind |-> "UnknownState", FSMName |-> Name(F), State |-> s]

\* mkErrNoTransition with the two states the wrong way round
mkErrNoTransition_swapped(F, s) ==
    [kind |-> "NoTransition", FSMName |-> Name(F),
     FromState |-> s, ToState |-> st.states[F.current].name]

mkErrNoTransition(F, s) ==
    [kind |-> "NoTransition", FSMName |-> Name(F),
     FromState |-> st.states[F.current].name, ToState |-> s]

\* mkErrForbiddenChange without the error of the Underlying
mkErrForbiddenChange_dropsCause(F, s, ue) ==
    [kind |-> "ForbiddenChange", FSMName |-> Name(F),
     FromState |-> st.states[F.current].name, ToState |-> s, UndError |-> NoErr]

mkErrForbiddenChange(F, s, ue) ==
    [kind |-> "ForbiddenChange", FSMName |-> Name(F),
     FromState |-> st.states[F.current].name, ToState |-> s, UndError |-> ue]

Unwrap(fe) == fe.UndError

\* the names of the model in the order of Go's string comparison
NamesInOrder == <<"A", "B", "init", "nonesuch">>

\* a < b, for two names of the model
Less(a, b) ==
    \E i, j \in 1..Len(NamesInOrder) :
        NamesInOrder[i] = a /\ NamesInOrder[j] = b /\ i < j

RECURSIVE Insert(_, _)
Insert(x, s) ==
    IF s = <<>>
    THEN <<x>>
    ELSE IF Less(s[1], x)
         THEN <<s[1]>> \o Insert(x, Tail(s))
         ELSE <<x>> \o s

\* Sort, were the slice returned as the map gave it
Sort_asIterated(s) == s

\* sort.StringSlice(states).Sort()
RECURSIVE Sort(_)
Sort(s) == IF s = <<>> THEN <<>> ELSE Insert(Head(s), Sort(Tail(s)))

\* the orders in which a range over a map with the keys S can give them
Iterations(S) ==
    {p \in [1..Cardinality(S) -> S] :
        \A i, j \in 1..Cardinality(S) : p[i] = p[j] => i = j}

\* newFSM, were the FSM to start in a first state that follows "init"
newFSM_startsAtNext(g, u) ==
    LET nx == g.states[InitState].nextState
    IN [prior |-> g.states[InitState].name,
        current |-> IF nx = {} THEN g.states[InitState].name
                    ELSE CHOOSE n \in nx : TRUE,
        und |-> u]

\* the FSM that New makes for the StateTrans g; u is TRUE for a non-nil
\* Underlying
newFSM(g, u) ==
    [prior |-> g.states[InitState].name,
     current |-> g.states[InitState].name,
     und |-> u]

\* lookup, were it made in the next states of the prior state
lookup_fromPrior(F, toState) == toState \in st.states[F.prior].nextState

\* lookup, were its answer not looked at
lookup_unchecked(F, toState) == TRUE

\* lookup, were the current state always one of its own next states
lookup_selfAllowed(F, toState) ==
    toState = F.current \/ toState \in st.states[F.current].nextState

\* lookup, were it to accept any state of the graph
lookup_anyKnown(F, toState) == toState \in DOMAIN st.states

\* state, ok := f.current.nextState[newState]
lookup(F, toState) == toState \in st.states[F.current].nextState

\* lookupError without the HasState test
lookupError_noHasState(F, toState) == mkErrNoTransition(F, toState)

\* the error ChangeState returns when the lookup fails
lookupError(F, toState) ==
    IF ~HasState(st, toState)
    THEN mkErrUnknownState(F, toState)
    ELSE mkErrNoTransition(F, toState)

\* vetoed, were the answer of TransitionAllowed dropped
vetoed_never(ue) == FALSE

\* err != nil, for the err that TransitionAllowed returned
vetoed(ue) == ue # NoErr

\* commit, were prior set after current and from it
commit_currentFirst(F, oldState, state) ==
    [F EXCEPT !.prior = state, !.current = state]

\* commit without the assignment to prior
commit_keepPrior(F, oldState, state) == [F EXCEPT !.current = state]

\* f.prior = oldState; f.current = state
commit(F, oldState, state) == [F EXCEPT !.prior = oldState, !.current = state]

Pending == [kind |-> "pending"]
NotCalled == [kind |-> "notcalled"]
NoObs == [nil |-> TRUE]

\* the frame of a ChangeState call as it is entered
Frame(f, F, toState) ==
    [op |-> "ChangeState", f |-> f, newState |-> toState,
     oldState |-> F.current, state |-> toState,
     pre |-> Observe(F),
     transitionAllowedCalled |-> 0, taSeen |-> NoObs, taRet |-> NotCalled,
     onTransitionCalled |-> 0, otSeen |-> NoObs,
     ret |-> Pending]

\* a Go string is modelled by the sequence of the strings it was
\* concatenated from
String(s) ==
    IF s.desc # ""
    THEN <<s.name>> \o <<" [", s.desc, "]">>
    ELSE <<s.name>>

\* flag is TRUE when the '#' flag is given
sFormat(F, flag) ==
    IF flag
    THEN <<Name(F), ": ">> \o String(st.states[F.current]) \o
         <<" (was: ">> \o String(st.states[F.prior]) \o <<")">>
    ELSE <<st.states[F.current].name>>

vFormat(F, flag) ==
    (IF flag THEN <<"FSMType: ", Name(F), ": ">> ELSE <<>>) \o
    <<"State: ", st.states[F.current].name>> \o
    (IF flag THEN <<": PriorState: ", st.states[F.prior].name>> ELSE <<>>)

\* the string that Format writes for the verb c
Format(F, flag, c) ==
    CASE c = "v" -> vFormat(F, flag)
      [] c = "s" -> sFormat(F, flag)
      [] OTHER -> <<"%!", c, "(FSM=">> \o sFormat(F, flag) \o <<")">>

\* ------------------------------------------------------------------- Init
Init ==
    /\ st = NilST
    /\ err = NoErr
    /\ fsms = [f \in FSMs |-> NilFSM]
    /\ und = [f \in FSMs |-> [setFSMCallCount |-> 0]]
    /\ pc = "idle"
    /\ call = [op |-> "none"]

\* ---------------------------------------------------------------- actions
\* NewStateTrans without the creation of the initial state
NewStateTrans_noInit(name, transitions) ==
    /\ pc = "idle"
    /\ call.op = "none"
    /\ LET g0 == [name |-> name, states |-> <<>>]
           r == set(g0, transitions)
       IN /\ st' = IF r.err # NoErr THEN NilST ELSE r.st
          /\ err' = r.err
    /\ call' = [op |-> "NewStateTrans", name |-> name,
                transitions |-> transitions]
    /\ UNCHANGED <<fsms, und, pc>>

NewStateTrans(name, transitions) ==
    /\ pc = "idle"
    /\ call.op = "none"
    /\ LET r == set(emptyStateTrans(name), transitions)
       IN /\ st' = IF r.err # NoErr THEN NilST ELSE r.st
          /\ err' = r.err
    /\ call' = [op |-> "NewStateTrans", name |-> name,
                transitions |-> transitions]
    /\ UNCHANGED <<fsms, und, pc>>

SetStateDesc(name, desc) ==
    /\ pc = "idle"
    /\ st # NilST
    /\ LET r == setStateDesc(st, name, desc)
       IN /\ st' = r.st
          /\ call' = [op |-> "SetStateDesc", name |-> name, desc |-> desc,
                      ret |-> r.err]
    /\ UNCHANGED <<err, fsms, und, pc>>

SetDescriptions(descriptions) ==
    /\ pc = "idle"
    /\ st # NilST
    /\ LET r == setDescriptions(st, descriptions)
       IN /\ st' = r.st
          /\ call' = [op |-> "SetDescriptions",
                      descriptions |-> descriptions, ret |-> r.err]
    /\ UNCHANGED <<err, fsms, und, pc>>

\* New, were SetFSM called before the StateTrans is tested for nil
New_setFSMFirst(f, u) ==
    /\ pc = "idle"
    /\ call.op # "none"
    /\ fsms[f] = NilFSM
    /\ und' = IF u
              THEN [und EXCEPT ![f].setFSMCallCount = @ + 1]
              ELSE und
    /\ IF st = NilST
       THEN UNCHANGED fsms
       ELSE fsms' = [fsms EXCEPT ![f] = newFSM(st, u)]
    /\ call' = [op |-> "New", f |-> f, u |-> u]
    /\ UNCHANGED <<st, err, pc>>

\* u is TRUE for a non-nil Underlying
New(f, u) ==
    /\ pc = "idle"
    /\ call.op # "none"
    /\ fsms[f] = NilFSM
    /\ IF st = NilST
       THEN UNCHANGED <<fsms, und>>
       ELSE /\ fsms' = [fsms EXCEPT ![f] = newFSM(st, u)]
            /\ und' = IF u
                      THEN [und EXCEPT ![f].setFSMCallCount = @ + 1]
                      ELSE und
    /\ call' = [op |-> "New", f |-> f, u |-> u]
    /\ UNCHANGED <<st, err, pc>>

\* NextStates; iterated is the order in which the range over the map of
\* next states gives them
NextStates(f) ==
    /\ pc = "idle"
    /\ fsms[f] # NilFSM
    /\ \E iterated \in Iterations(st.states[fsms[f].current].nextState) :
           LET states == [i \in 1..Len(iterated) |->
                             st.states[iterated[i]].name]
           IN call' = [op |-> "NextStates", f |-> f, ret |-> Sort(states)]
    /\ UNCHANGED <<st, err, fsms, und, pc>>

\* ChangeState, were the current state kept in one place for all the FSMs
\* of a graph
ChangeState_sharedCurrent(f, toState) ==
    /\ pc = "idle"
    /\ fsms[f] # NilFSM
    /\ LET shared == CHOOSE g \in FSMs : fsms[g] # NilFSM
           F == [fsms[f] EXCEPT !.current = fsms[shared].current]
           frame == Frame(f, F, toState)
           ok == lookup(F, toState)
       IN IF ~ok
          THEN /\ call' = [frame EXCEPT !.ret = lookupError(F, toState)]
               /\ UNCHANGED <<fsms, pc>>
          ELSE IF F.und
          THEN /\ call' = [frame EXCEPT !.transitionAllowedCalled = @ + 1,
                                        !.taSeen = Observe(F)]
               /\ pc' = "TransitionAllowed"
               /\ UNCHANGED fsms
          ELSE /\ fsms' = [fsms EXCEPT ![f] =
                              commit(F, frame.oldState, frame.state)]
               /\ call' = [frame EXCEPT !.ret = NoErr]
               /\ UNCHANGED pc
    /\ UNCHANGED <<st, err, und>>

\* ChangeState, were the commit to copy the new state over the state that
\* f.current points to
ChangeState_overwritesState(f, toState) ==
    /\ pc = "idle"
    /\ fsms[f] # NilFSM
    /\ LET F == fsms[f]
           frame == Frame(f, F, toState)
           ok == lookup(F, toState)
       IN IF ~ok
          THEN /\ call' = [frame EXCEPT !.ret = lookupError(F, toState)]
               /\ UNCHANGED <<st, fsms, pc>>
          ELSE IF F.und
          THEN /\ call' = [frame EXCEPT !.transitionAllowedCalled = @ + 1,
                                        !.taSeen = Observe(F)]
               /\ pc' = "TransitionAllowed"
               /\ UNCHANGED <<st, fsms>>
          ELSE /\ st' = [st EXCEPT !.states[F.current] = st.states[toState]]
               /\ fsms' = [fsms EXCEPT ![f] = [F EXCEPT !.prior = F.current]]
               /\ call' = [frame EXCEPT !.ret = NoErr]
               /\ UNCHANGED pc
    /\ UNCHANGED <<err, und>>

\* ChangeState, were it to ask the Underlying before it looks the state up
ChangeState_vetoFirst(f, toState) ==
    /\ pc = "idle"
    /\ fsms[f] # NilFSM
    /\ LET F == fsms[f]
           frame == Frame(f, F, toState)
       IN IF F.und
          THEN /\ call' = [frame EXCEPT !.transitionAllowedCalled = @ + 1,
                                        !.taSeen = Observe(F)]
               /\ pc' = "TransitionAllowed"
               /\ UNCHANGED fsms
          ELSE IF ~lookup(F, toState)
          THEN /\ call' = [frame EXCEPT !.ret = lookupError(F, toState)]
               /\ UNCHANGED <<fsms, pc>>
          ELSE /\ fsms' = [fsms EXCEPT ![f] =
                              commit(F, frame.oldState, frame.state)]
               /\ call' = [frame EXCEPT !.ret = NoErr]
               /\ UNCHANGED pc
    /\ UNCHANGED <<st, err, und>>

\* ChangeState from its entry to its first hook call or, without one, to
\* its return
ChangeState(f, toState) ==
    /\ pc = "idle"
    /\ fsms[f] # NilFSM
    /\ LET F == fsms[f]
           frame == Frame(f, F, toState)
           ok == lookup(F, toState)
       IN IF ~ok
          THEN /\ call' = [frame EXCEPT !.ret = lookupError(F, toState)]
               /\ UNCHANGED <<fsms, pc>>
          ELSE IF F.und
          THEN /\ call' = [frame EXCEPT !.transitionAllowedCalled = @ + 1,
                                        !.taSeen = Observe(F)]
               /\ pc' = "TransitionAllowed"
               /\ UNCHANGED fsms
          ELSE /\ fsms' = [fsms EXCEPT ![f] =
                              commit(F, frame.oldState, frame.state)]
               /\ call' = [frame EXCEPT !.ret = NoErr]
               /\ UNCHANGED pc
    /\ UNCHANGED <<st, err, und>>

\* TransitionAllowed, were the commit made before the answer is looked at
TransitionAllowed_commitBeforeVeto(ue) ==
    /\ pc = "TransitionAllowed"
    /\ LET f == call.f
           F == fsms[f]
           C == commit(F, call.oldState, call.state)
       IN /\ fsms' = [fsms EXCEPT ![f] = C]
          /\ IF vetoed(ue)
             THEN /\ call' = [call EXCEPT !.taRet = ue, !.ret =
                                 mkErrForbiddenChange(F, call.newState, ue)]
                  /\ pc' = "idle"
             ELSE /\ call' = [call EXCEPT !.taRet = ue,
                                          !.onTransitionCalled = @ + 1,
                                          !.otSeen = Observe(C)]
                  /\ pc' = "OnTransition"
    /\ UNCHANGED <<st, err, und>>

\* TransitionAllowed, were OnTransition called before the commit
TransitionAllowed_notifyBeforeCommit(ue) ==
    /\ pc = "TransitionAllowed"
    /\ LET f == call.f
           F == fsms[f]
       IN IF vetoed(ue)
          THEN /\ call' = [call EXCEPT !.taRet = ue, !.ret =
                              mkErrForbiddenChange(F, call.newState, ue)]
               /\ pc' = "idle"
               /\ UNCHANGED fsms
          ELSE /\ call' = [call EXCEPT !.taRet = ue,
                                       !.onTransitionCalled = @ + 1,
                                       !.otSeen = Observe(F)]
               /\ pc' = "OnTransition"
               /\ UNCHANGED fsms
    /\ UNCHANGED <<st, err, und>>

\* TransitionAllowed returns ue; ChangeState runs on to its return or to
\* the call of OnTransition
TransitionAllowed(ue) ==
    /\ pc = "TransitionAllowed"
    /\ LET f == call.f
           F == fsms[f]
       IN IF vetoed(ue)
          THEN /\ call' = [call EXCEPT !.taRet = ue, !.ret =
                              mkErrForbiddenChange(F, call.newState, ue)]
               /\ pc' = "idle"
               /\ UNCHANGED fsms
          ELSE /\ fsms' = [fsms EXCEPT ![f] =
                              commit(F, call.oldState, call.state)]
               /\ call' = [call EXCEPT !.taRet = ue,
                                       !.onTransitionCalled = @ + 1,
                                       !.otSeen = Observe(fsms'[f])]
               /\ pc' = "OnTransition"
    /\ UNCHANGED <<st, err, und>>

\* OnTransition, were the FSM to set itself on the Underlying once more
OnTransition_setsFSM ==
    /\ pc = "OnTransition"
    /\ call' = [call EXCEPT !.ret = NoErr]
    /\ pc' = "idle"
    /\ und' = [und EXCEPT ![call.f].setFSMCallCount = @ + 1]
    /\ UNCHANGED <<st, err, fsms>>

\* OnTransition returns; ChangeState returns nil
OnTransition ==
    /\ pc = "OnTransition"
    /\ call' = [call EXCEPT !.ret = NoErr]
    /\ pc' = "idle"
    /\ UNCHANGED <<st, err, fsms, und>>

\* fmt.Sprintf of the FSM with the verb c, with or without the '#' flag
Sprintf(f, flag, c) ==
    /\ pc = "idle"
    /\ fsms[f] # NilFSM
    /\ call' = [op |-> "Sprintf", f |-> f, flag |-> flag, c |-> c,
                ret |-> Format(fsms[f], flag, c)]
    /\ UNCHANGED <<st, err, fsms, und, pc>>

Next ==
    \/ /\ call.op = "none"
       /\ \E name \in GraphNames, transitions \in SeqsUpTo(STPair, MaxPairs) :
              NewStateTrans(name, transitions)
    \/ \E f \in FSMs, u \in BOOLEAN : New(f, u)
    \/ \E f \in FSMs : NextStates(f)
    \/ \E f \in FSMs, toState \in ArgNames : ChangeState(f, toState)
    \/ \E ue \in UndErrors \cup {NoErr} : TransitionAllowed(ue)
    \/ OnTransition

Spec == Init /\ [][Next]_vars

\* The graph alone: construction and the setting of descriptions
NextST ==
    \/ /\ call.op = "none"
       /\ \E name \in GraphNames, transitions \in SeqsUpTo(STPair, MaxPairs) :
              NewStateTrans(name, transitions)
    \/ \E name \in ArgNames, desc \in Descs : SetStateDesc(name, desc)
    \/ /\ st # NilST
       /\ \E descriptions \in SeqsUpTo(StateDesc, MaxDescs) :
              SetDescriptions(descriptions)

SpecST == Init /\ [][NextST]_vars

\* The FSMs of a graph whose descriptions are set while they run
NextFD ==
    \/ /\ call.op = "none"
       /\ \E name \in GraphNames, transitions \in SeqsUpTo(STPair, MaxPairs) :
              NewStateTrans(name, transitions)
    \/ \E name \in ArgNames, desc \in Descs : SetStateDesc(name, desc)
    \/ \E f \in OneFSM, u \in BOOLEAN : New(f, u)
    \/ \E f \in OneFSM, toState \in ArgNames : ChangeState(f, toState)
    \/ \E ue \in UndErrors \cup {NoErr} : TransitionAllowed(ue)
    \/ OnTransition
    \/ \E f \in OneFSM, flag \in BOOLEAN, c \in Verbs : Sprintf(f, flag, c)

SpecFD == Init /\ [][NextFD]_vars

\* ----------------------------------------------------------------- claims
\* the ChangeState call that has returned, when there is one
Returned == pc = "idle" /\ call.op = "ChangeState"

\* what the FSM of the call reports once the call has committed
Committed == [prior |-> call.pre.current, current |-> call.newState]

\* the proposed state of the call is a direct next state of the state the
\* FSM was in when the call was made
LegalEdge == call.newState \in st.states[call.pre.current].nextState

\* C1: a step that changes the current state of an FSM is a step of a
\* ChangeState call on that FSM to the new current state, and the new
\* current state is a direct next state, in the graph, of the old one.
MovesAlongEdges ==
    [][\A f \in FSMs :
          (fsms[f] # NilFSM /\ fsms'[f].current # fsms[f].current) =>
              /\ fsms'[f].current \in st.states[fsms[f].current].nextState
              /\ call'.op = "ChangeState"
              /\ call'.f = f
              /\ call'.newState = fsms'[f].current]_vars

\* an FSM has taken two steps, init -> A -> B, along declared edges
MovedTwice ==
    \E f \in FSMs :
        /\ fsms[f] # NilFSM
        /\ fsms[f].prior = "A"
        /\ fsms[f].current = "B"
        /\ "A" \in st.states[InitState].nextState
        /\ "B" \in st.states["A"].nextState

\* C2: a ChangeState call that has returned an error has left the current
\* and the prior state of its FSM as they were when the call was made.
FailedCallChangesNothing ==
    (Returned /\ call.ret # NoErr) => Observe(fsms[call.f]) = call.pre

\* a call has failed on an FSM that had moved before, so that prior and
\* current differ and a wrong commit would show
FailedAfterMove ==
    /\ Returned
    /\ call.ret # NoErr
    /\ call.pre.prior # call.pre.current
    /\ call.ret.kind = "ForbiddenChange"

\* C3: a ChangeState call that has returned nil has set prior to the state
\* that was current when it was made and current to the proposed state; and
\* whenever a hook or the caller can look at the FSM, it reports either the
\* two states as they were before the call or both of them updated.
CommitIsAtomic ==
    call.op = "ChangeState" =>
        /\ Observe(fsms[call.f]) \in {call.pre, Committed}
        /\ (pc = "idle" /\ call.ret = NoErr) =>
               Observe(fsms[call.f]) = Committed

\* a call from A to B has succeeded on an FSM whose prior state was init
SecondCommit ==
    /\ Returned
    /\ call.ret = NoErr
    /\ call.pre = [prior |-> InitState, current |-> "A"]
    /\ fsms[call.f].prior = "A"
    /\ fsms[call.f].current = "B"

\* C4: with an Underlying bound and a proposed state that is a direct next
\* state, a non-nil answer of TransitionAllowed makes ChangeState return a
\* ForbiddenChange, leaves current and prior as they were, and OnTransition
\* is not called.
VetoForbidsChange ==
    (/\ Returned
     /\ fsms[call.f].und
     /\ LegalEdge
     /\ call.taRet \in UndErrors) =>
        /\ call.ret.kind = "ForbiddenChange"
        /\ Observe(fsms[call.f]) = call.pre
        /\ call.onTransitionCalled = 0

\* TransitionAllowed has answered with an error on a legal edge
Vetoed ==
    /\ Returned
    /\ fsms[call.f].und
    /\ LegalEdge
    /\ call.transitionAllowedCalled = 1
    /\ call.taRet \in UndErrors
    /\ call.pre.current # call.newState

\* C5: with an Underlying bound and a legal edge, TransitionAllowed is
\* called while the FSM still reports the old states; when it answers nil,
\* the commit is made and then OnTransition is called exactly once, while
\* the FSM reports the new current state and the old one as prior.
CommitThenNotify ==
    (call.op = "ChangeState" /\ fsms[call.f].und /\ LegalEdge) =>
        /\ call.transitionAllowedCalled = 1
        /\ call.taSeen = call.pre
        /\ pc = "TransitionAllowed" =>
               /\ Observe(fsms[call.f]) = call.pre
               /\ call.onTransitionCalled = 0
        /\ pc = "OnTransition" =>
               /\ call.taRet = NoErr
               /\ Observe(fsms[call.f]) = Committed
               /\ call.onTransitionCalled = 1
               /\ call.otSeen = Committed
        /\ (pc = "idle" /\ call.taRet = NoErr) =>
               /\ call.ret = NoErr
               /\ Observe(fsms[call.f]) = Committed
               /\ call.onTransitionCalled = 1
               /\ call.otSeen = Committed

\* OnTransition is running for a change from A to B that was allowed
Notifying ==
    /\ pc = "OnTransition"
    /\ call.pre.current = "A"
    /\ call.newState = "B"
    /\ call.taRet = NoErr
    /\ call.onTransitionCalled = 1

\* C6: a ChangeState call whose proposed state is no state of the graph
\* returns an UnknownState that carries the name of the graph and the
\* proposed state.
UnknownStateError ==
    (Returned /\ ~HasState(st, call.newState)) =>
        call.ret = [kind |-> "UnknownState", FSMName |-> st.name,
                    State |-> call.newState]

\* an unknown state was proposed to an FSM that is not in its initial state
UnknownProposedAfterMove ==
    /\ Returned
    /\ ~HasState(st, call.newState)
    /\ call.pre.current # InitState
    /\ call.ret.kind = "UnknownState"

\* C7: a ChangeState call whose proposed state is a state of the graph but
\* no direct next state of the current one returns a NoTransition from the
\* current state to the proposed state.
NoTransitionError ==
    (Returned /\ HasState(st, call.newState) /\ ~LegalEdge) =>
        call.ret = [kind |-> "NoTransition", FSMName |-> st.name,
                    FromState |-> call.pre.current,
                    ToState |-> call.newState]

\* the current state, which has no edge to itself, was proposed
SelfProposedWithoutSelfEdge ==
    /\ Returned
    /\ call.newState = call.pre.current
    /\ ~LegalEdge
    /\ call.ret.kind = "NoTransition"

\* C8: when the proposed state is unknown or no direct next state of the
\* current one, the call fails with neither TransitionAllowed nor
\* OnTransition called.
LookupPrecedesVeto ==
    (call.op = "ChangeState" /\ ~LegalEdge) =>
        /\ pc = "idle"
        /\ call.ret.kind \in {"UnknownState", "NoTransition"}
        /\ call.transitionAllowedCalled = 0
        /\ call.onTransitionCalled = 0

\* the lookup has failed on an FSM that has an Underlying
LookupFailedWithUnderlying ==
    /\ Returned
    /\ fsms[call.f].und
    /\ ~LegalEdge
    /\ HasState(st, call.newState)

\* the pair at position i names a source that is "init" or the destination
\* of an earlier pair
SourceIntroduced(t, i) ==
    \/ t[i].From = InitState
    \/ \E j \in 1..(i - 1) : t[j].To = t[i].From

\* C9: NewStateTrans returns a graph and a nil error exactly when every pair
\* names a source that is "init" or the destination of an earlier pair;
\* otherwise it returns a nil graph and the error of the first pair that
\* does not.
ConstructionIffSourcesIntroduced ==
    call.op = "NewStateTrans" =>
        LET t == call.transitions
            bad == {i \in 1..Len(t) : ~SourceIntroduced(t, i)}
        IN IF bad = {}
           THEN st # NilST /\ err = NoErr
           ELSE LET k == CHOOSE i \in bad : \A j \in bad : i <= j
                IN /\ st = NilST
                   /\ err = [kind |-> "errorString", name |-> call.name,
                             from |-> t[k].From, to |-> t[k].To]

\* construction has failed on a list that succeeds in another order
FailedThoughReorderable ==
    /\ call.op = "NewStateTrans"
    /\ call.transitions = <<[From |-> "A", To |-> "B"],
                            [From |-> InitState, To |-> "A"]>>
    /\ st = NilST
    /\ err # NoErr

\* C10: a graph that was constructed has the state "init", in every later
\* state too, and NewStateTrans returns it with the description
\* "the initial state".
InitStateAlwaysPresent ==
    st # NilST =>
        /\ HasState(st, InitState)
        /\ call.op = "NewStateTrans" => st.states[InitState].desc = InitDesc

\* a graph made of no pair, after the description of "init" was replaced
NoPairsThenDescribed ==
    /\ st # NilST
    /\ StateCount(st) = 1
    /\ call.op = "SetStateDesc"
    /\ call.name = InitState
    /\ call.ret = NoErr
    /\ HasState(st, InitState)
    /\ st.states[InitState].desc # InitDesc

\* C11: the FSM that New has just made for a graph reports "init" as its
\* current and as its prior state and is in its initial state, whatever the
\* edges of the graph and the states of the other FSMs.
FreshFSMIsInInit ==
    (call.op = "New" /\ st # NilST) =>
        /\ fsms[call.f] # NilFSM
        /\ fsms[call.f].und = call.u
        /\ CurrentState(fsms[call.f]) = InitState
        /\ PriorState(fsms[call.f]) = InitState
        /\ IsInInitialState(fsms[call.f])

\* an FSM was made for a graph on which another FSM has already moved
FreshBesideMoved ==
    /\ call.op = "New"
    /\ st # NilST
    /\ \E g \in FSMs \ {call.f} :
           /\ fsms[g] # NilFSM
           /\ fsms[g].current # InitState
    /\ fsms[call.f].current = InitState

\* C12: SetFSM is called once for an FSM that has an Underlying, by New,
\* and by no ChangeState; for an FSM without one no hook is called, no call
\* waits in a hook and no call is forbidden.
SetFSMOnceAndNilSkipsHooks ==
    \A f \in FSMs :
        fsms[f] # NilFSM =>
            /\ und[f].setFSMCallCount = (IF fsms[f].und THEN 1 ELSE 0)
            /\ (~fsms[f].und /\ call.op = "ChangeState" /\ call.f = f) =>
                   /\ pc = "idle"
                   /\ call.transitionAllowedCalled = 0
                   /\ call.onTransitionCalled = 0
                   /\ call.ret.kind # "ForbiddenChange"
                   /\ LegalEdge => call.ret = NoErr

\* an FSM with an Underlying has made two changes, one without has made one
ChangedWithAndWithoutUnderlying ==
    \E f, g \in FSMs :
        /\ fsms[f] # NilFSM /\ fsms[g] # NilFSM
        /\ fsms[f].und /\ ~fsms[g].und
        /\ fsms[f].prior # InitState
        /\ fsms[g].current # InitState
        /\ und[f].setFSMCallCount = 1
        /\ und[g].setFSMCallCount = 0

\* C17: New with a nil StateTrans returns a nil FSM and does not call
\* SetFSM.
NilGraphGivesNilFSM ==
    st = NilST =>
        \A f \in FSMs : fsms[f] = NilFSM /\ und[f].setFSMCallCount = 0

\* New was called with an Underlying after a construction that had failed
NewOnFailedConstruction ==
    /\ call.op = "New"
    /\ call.u
    /\ st = NilST
    /\ err # NoErr
    /\ fsms[call.f] = NilFSM

\* C13: a ChangeState call on an FSM without an Underlying returns nil
\* exactly when the graph has an edge from the state that was current to
\* the proposed state, and then the FSM is in the proposed state.
OutcomeIsTheGraphs ==
    (Returned /\ ~fsms[call.f].und) =>
        /\ call.ret = NoErr <=> LegalEdge
        /\ call.ret = NoErr => fsms[call.f].current = call.newState
        /\ call.ret # NoErr => fsms[call.f].current = call.pre.current

\* without an Underlying, a state was refused that the prior state leads to
\* and the current state does not
RefusedThoughPriorLeadsThere ==
    /\ Returned
    /\ ~fsms[call.f].und
    /\ call.ret # NoErr
    /\ call.pre.prior # call.pre.current
    /\ call.newState \in st.states[call.pre.prior].nextState

\* the names that occur in the pairs of t, as source or as destination
NamesOf(t) == {t[i].From : i \in 1..Len(t)} \cup {t[i].To : i \in 1..Len(t)}

\* C14: after a construction that succeeded, the states of the graph are
\* "init" and the names that occur in the pairs, and StateCount is their
\* number, each name counted once.
StateCountIsDistinctNames ==
    (call.op = "NewStateTrans" /\ st # NilST) =>
        /\ DOMAIN st.states = NamesOf(call.transitions) \cup {InitState}
        /\ StateCount(st) =
               Cardinality(NamesOf(call.transitions) \cup {InitState})

\* a graph was made of three pairs, two of them the same, over two names
RepeatedPairCountedOnce ==
    /\ call.op = "NewStateTrans"
    /\ call.transitions = <<[From |-> InitState, To |-> "A"],
                            [From |-> "A", To |-> InitState],
                            [From |-> InitState, To |-> "A"]>>
    /\ st # NilST
    /\ StateCount(st) = 2

\* t without the later occurrences of a pair that occurs in it before
RECURSIVE Dedup(_)
Dedup(t) ==
    IF t = <<>>
    THEN <<>>
    ELSE LET r == Dedup(SubSeq(t, 1, Len(t) - 1))
             last == t[Len(t)]
         IN IF \E i \in 1..Len(r) : r[i] = last THEN r ELSE Append(r, last)

\* C15: the construction from a list in which a pair occurs again gives
\* what the construction from the list with each pair once gives: the same
\* error or, without one, the same states with the same next states.
RepeatedEdgeIsNoOp ==
    (call.op = "NewStateTrans" /\ Dedup(call.transitions) # call.transitions)
        => LET once == set(emptyStateTrans(call.name),
                           Dedup(call.transitions))
           IN /\ err = once.err
              /\ st = NilST <=> once.err # NoErr
              /\ st # NilST =>
                     /\ DOMAIN st.states = DOMAIN once.st.states
                     /\ \A n \in DOMAIN st.states :
                            st.states[n].nextState =
                                once.st.states[n].nextState

\* a graph was made of a list whose third pair repeats the first, after
\* the destination of that pair was given an edge of its own
RepeatedAfterDestinationGrew ==
    /\ call.op = "NewStateTrans"
    /\ call.transitions = <<[From |-> InitState, To |-> "A"],
                            [From |-> "A", To |-> "B"],
                            [From |-> InitState, To |-> "A"]>>
    /\ st # NilST
    /\ st.states["A"].nextState = {"B"}

\* C16: NextStates returns the names of the direct next states of the
\* current state, each once, in ascending order, and returns no name
\* exactly when IsInTerminalState is true.
NextStatesSortedAndExact ==
    call.op = "NextStates" =>
        LET r == call.ret
            F == fsms[call.f]
        IN /\ {r[i] : i \in 1..Len(r)} = st.states[F.current].nextState
           /\ Len(r) = Cardinality(st.states[F.current].nextState)
           /\ \A i \in 1..(Len(r) - 1) : Less(r[i], r[i + 1])
           /\ r = <<>> <=> IsInTerminalState(F)

\* NextStates has returned the three names of the model's graphs
ThreeNextStates ==
    /\ call.op = "NextStates"
    /\ call.ret = <<"A", "B", "init">>
    /\ ~IsInTerminalState(fsms[call.f])

\* what the call c makes of the FSM F when F is the only FSM of the graph
Alone(F, c) ==
    IF /\ c.newState \in st.states[F.current].nextState
       /\ F.und => c.taRet = NoErr
    THEN [F EXCEPT !.prior = F.current, !.current = c.newState]
    ELSE F

\* C18: a step changes no FSM but the one whose New or ChangeState call it
\* belongs to, and a ChangeState call makes of its FSM what it would make
\* of it were there no other FSM; so each FSM is, after any interleaving
\* of the calls, where its own calls take it.
FSMsAreIndependent ==
    [][/\ \A f \in FSMs :
              fsms'[f] # fsms[f] =>
                  /\ call'.op \in {"New", "ChangeState"}
                  /\ call'.f = f
                  /\ \A g \in FSMs \ {f} : fsms'[g] = fsms[g]
       /\ (/\ call'.op = "ChangeState"
           /\ pc # "OnTransition"
           /\ pc' # "TransitionAllowed") =>
              fsms'[call'.f] = Alone(fsms[call'.f], call')]_vars

\* an FSM has changed state while the other FSM of the graph was in a
\* state that is neither the state it left nor the state it went to
ChangedBesideAnother ==
    /\ Returned
    /\ call.ret = NoErr
    /\ \E g \in FSMs \ {call.f} :
           /\ fsms[g] # NilFSM
           /\ fsms[g].current \notin {call.pre.current, call.newState}
           /\ fsms[g].current # InitState

\* the graphs g and h have the same name, the same states and, for every
\* state, the same next states
SameEdges(g, h) ==
    /\ g.name = h.name
    /\ DOMAIN g.states = DOMAIN h.states
    /\ \A n \in DOMAIN g.states :
           /\ g.states[n].name = h.states[n].name
           /\ g.states[n].nextState = h.states[n].nextState

\* C19: SetStateDesc with a name that is no state of the graph returns an
\* error and leaves the graph as it was; with the name of a state it
\* returns nil and changes the description of that state to the text and
\* nothing else; the same call made again leaves the graph as it is.
SetStateDescSetsOneDescription ==
    [][call'.op = "SetStateDesc" =>
          /\ IF ~HasState(st, call'.name)
             THEN /\ call'.ret # NoErr
                  /\ st' = st
             ELSE /\ call'.ret = NoErr
                  /\ SameEdges(st, st')
                  /\ \A n \in DOMAIN st.states :
                         st'.states[n].desc =
                             IF n = call'.name
                             THEN call'.desc
                             ELSE st.states[n].desc
          /\ call' = call => st' = st]_vars

\* the description of A was set in a graph in which A has an edge and the
\* two other states keep the descriptions they were made with
DescribedOneOfThree ==
    /\ call.op = "SetStateDesc"
    /\ call.name = "A"
    /\ call.desc = "first"
    /\ call.ret = NoErr
    /\ st.states["A"].desc = "first"
    /\ st.states["A"].nextState # {}
    /\ st.states[InitState].desc = InitDesc
    /\ HasState(st, "B")
    /\ st.states["B"].desc = ""

\* C20: SetDescriptions sets the descriptions of its entries in order up
\* to the first entry that names no state of the graph and returns the
\* error of that entry: the entries before it are applied, the entries
\* after it are not; without such an entry all are applied and nil is
\* returned.
SetDescriptionsStopsAtFirstFailure ==
    [][call'.op = "SetDescriptions" =>
          LET d == call'.descriptions
              bad == {i \in 1..Len(d) : ~HasState(st, d[i].Name)}
              k == IF bad = {}
                   THEN Len(d) + 1
                   ELSE CHOOSE i \in bad : \A j \in bad : i <= j
              applied(n) == {i \in 1..(k - 1) : d[i].Name = n}
              last(n) == CHOOSE i \in applied(n) :
                             \A j \in applied(n) : j <= i
          IN /\ call'.ret = IF bad = {}
                            THEN NoErr
                            ELSE [kind |-> "errorString", name |-> st.name,
                                  state |-> d[k].Name]
             /\ SameEdges(st, st')
             /\ \A n \in DOMAIN st.states :
                    st'.states[n].desc =
                        IF applied(n) = {}
                        THEN st.states[n].desc
                        ELSE d[last(n)].Desc]_vars

\* SetDescriptions has failed on its second entry and its first is applied
FirstAppliedSecondFailed ==
    /\ call.op = "SetDescriptions"
    /\ call.descriptions = <<[Name |-> InitState, Desc |-> "first"],
                             [Name |-> "A", Desc |-> "first"]>>
    /\ call.ret # NoErr
    /\ ~HasState(st, "A")
    /\ st.states[InitState].desc = "first"

\* C21: a SetDescriptions call that has failed leaves the graph in an error
\* state, so that the SetDescriptions call that follows it returns an
\* error too, whatever its entries.
FailedSetDescriptionsSticks ==
    [][(/\ call.op = "SetDescriptions"
        /\ call.ret # NoErr
        /\ call'.op = "SetDescriptions") => call'.ret # NoErr]_vars

\* C23: the ForbiddenChange that a vetoed ChangeState call returns carries
\* the name of the graph, as FromState the current state, which the call
\* has left as it was, as ToState the proposed state and as UndError the
\* error that TransitionAllowed returned; Unwrap returns that error.
ForbiddenChangeCarriesCause ==
    (Returned /\ call.taRet \in UndErrors) =>
        /\ call.ret = [kind |-> "ForbiddenChange", FSMName |-> st.name,
                       FromState |-> call.pre.current,
                       ToState |-> call.newState,
                       UndError |-> call.taRet]
        /\ call.ret.FromState = CurrentState(fsms[call.f])
        /\ Unwrap(call.ret) = call.taRet

\* the change from A to B of an FSM of the graph "lifecycle" was vetoed
\* with the second of the errors of the Underlying
VetoedWithSecondCause ==
    /\ Returned
    /\ st.name = "lifecycle"
    /\ call.pre.current = "A"
    /\ call.newState = "B"
    /\ call.ret # NoErr
    /\ call.ret.kind = "ForbiddenChange"
    /\ Unwrap(call.ret) =
           [kind |-> "errorString", msg |-> "missing test evidence"]

\* the states of g that a walk along edges reaches from the states S
RECURSIVE ReachableFrom(_, _)
ReachableFrom(g, S) ==
    LET step == S \cup UNION {g.states[n].nextState :
                                 n \in S \cap DOMAIN g.states}
    IN IF step = S THEN S ELSE ReachableFrom(g, step)

\* C25: in a graph that was constructed, every state is reached from "init"
\* by a walk along zero or more edges.
EveryStateReachableFromInit ==
    st # NilST => ReachableFrom(st, {InitState}) = DOMAIN st.states

\* a graph in which B is reached from "init" through A only
ReachedThroughAnother ==
    /\ st # NilST
    /\ DOMAIN st.states = {InitState, "A", "B"}
    /\ st.states[InitState].nextState = {"A"}
    /\ "B" \in st.states["A"].nextState
    /\ "A" \in st.states["B"].nextState

\* C27: while the current state of an FSM is a state without next states,
\* no step changes the current or the prior state of the FSM or what
\* IsInTerminalState reports for it, and a ChangeState call made on it
\* returns an UnknownState or a NoTransition with no hook called.
TerminalIsAbsorbing ==
    [][\A f \in FSMs :
          (fsms[f] # NilFSM /\ IsInTerminalState(fsms[f])) =>
              /\ fsms'[f] = fsms[f]
              /\ IsInTerminalState(fsms[f])'
              /\ (pc = "idle" /\ call'.op = "ChangeState" /\ call'.f = f) =>
                     /\ pc' = "idle"
                     /\ call'.ret # NoErr
                     /\ call'.ret.kind \in {"UnknownState", "NoTransition"}
                     /\ call'.transitionAllowedCalled = 0
                     /\ call'.onTransitionCalled = 0]_vars

\* an FSM with an Underlying has come to B through A, B has no next state,
\* and a call to go back to A has failed
RefusedInTerminalState ==
    /\ Returned
    /\ fsms[call.f].und
    /\ fsms[call.f].prior = "A"
    /\ fsms[call.f].current = "B"
    /\ IsInTerminalState(fsms[call.f])
    /\ call.pre.current = "B"
    /\ call.newState = "A"
    /\ call.ret # NoErr

\* C28: after every step, an FSM is either in a current state that is a
\* direct next state of its prior state, or its prior and current state are
\* both "init" and the step was not a change of that FSM; so an FSM for
\* which the graph has no edge from prior to current is as New made it.
PriorLeadsToCurrent ==
    [][\A f \in FSMs :
          fsms'[f] # NilFSM =>
              \/ fsms'[f].current \in st'.states[fsms'[f].prior].nextState
              \/ /\ fsms'[f].prior = InitState
                 /\ fsms'[f].current = InitState
                 /\ fsms[f] \in {NilFSM, fsms'[f]}]_vars

\* an FSM has gone from A to A along the edge from A to itself, beside an
\* FSM that is as New made it in a graph without an edge from "init" to
\* itself
LoopedBesideFresh ==
    \E f, g \in FSMs :
        /\ fsms[f] # NilFSM /\ fsms[g] # NilFSM
        /\ fsms[f].prior = "A" /\ fsms[f].current = "A"
        /\ fsms[g].prior = InitState /\ fsms[g].current = InitState
        /\ InitState \notin st.states[InitState].nextState

\* the string r has the string part in it
Contains(r, part) ==
    \E i \in 0..(Len(r) - Len(part)) :
        SubSeq(r, i + 1, i + Len(part)) = part

\* in the string r the name of the state s is followed by " [", the
\* description of s and "]" when s has a description, and by no " ["
\* when it has none
ShownWithDescription(r, s) ==
    IF s.desc # ""
    THEN Contains(r, <<s.name, " [", s.desc, "]">>)
    ELSE /\ Contains(r, <<s.name>>)
         /\ ~Contains(r, <<s.name, " [">>)

\* C22: the %s rendering of an FSM shows, without the '#' flag and with
\* it, the current state with its description, and with the flag the
\* prior state with its description too.
DescriptionInBothRenderings ==
    (call.op = "Sprintf" /\ call.c = "s") =>
        /\ ShownWithDescription(call.ret, st.states[fsms[call.f].current])
        /\ call.flag =>
               ShownWithDescription(call.ret, st.states[fsms[call.f].prior])

\* C24: the current and the prior state of every FSM are states of the
\* graph, whatever ChangeState calls were made on it, and whatever
\* descriptions were set, since New made it.
CurrentAndPriorInGraph ==
    \A f \in FSMs :
        fsms[f] # NilFSM =>
            /\ st # NilST
            /\ HasState(st, fsms[f].current)
            /\ HasState(st, fsms[f].prior)
            /\ CurrentState(fsms[f]) = fsms[f].current
            /\ PriorState(fsms[f]) = fsms[f].prior

\* an FSM has gone to B through A, and the description of A and then that
\* of its current state B were set
DescribedUnderMovedFSM ==
    /\ call.op = "SetStateDesc"
    /\ call.name = "B"
    /\ call.desc = "first"
    /\ call.ret = NoErr
    /\ \E f \in FSMs :
           /\ fsms[f] # NilFSM
           /\ fsms[f].prior = "A"
           /\ fsms[f].current = "B"
           /\ st.states["A"].desc = "first"

\* C26: no step of a ChangeState call, be it the lookup, the return of a
\* hook or the return of the call, changes the graph: its name, its
\* states, their next states and their descriptions stay as they are.
ChangeStateLeavesGraph ==
    [][call'.op = "ChangeState" => st' = st]_vars

\* a ChangeState call has returned nil in a graph in which the description
\* of the state it left was removed and that of the state it went to set
ChangedInDescribedGraph ==
    /\ Returned
    /\ call.ret = NoErr
    /\ call.pre.current = InitState
    /\ call.newState = "A"
    /\ st.states[InitState].desc = ""
    /\ st.states["A"].desc = "first"
    /\ st.states["A"].nextState # {}

====
